---- MODULE Spec2Model ----
(***************************************************************************)
(* Run controller of MFFNet (src/main.py): the __main__ block and main().  *)
(* One process executes main() statement group by statement group; `pc`    *)
(* is the position in main().  The checkpoint directory, record.txt and    *)
(* config.txt survive the process; everything else is lost when the        *)
(* process ends and is rebuilt by the next process started on the same     *)
(* command line.                                                           *)
(*                                                                         *)
(* main() reads three names that main.py itself never binds before the     *)
(* read: mixup_fn (l.160), wandb (l.220) and, when the model identifier is *)
(* unsupported, the global model (l.31, l.110).  Python resolves them in   *)
(* the module globals at the time of the read; which of them the calling   *)
(* process has bound is an input (preset_globals).  `python main.py` is    *)
(* the input preset_globals = {}.                                          *)
(*                                                                         *)
(* Spec is the controller over all flag combinations.  Three further       *)
(* specifications widen one input each: SpecLoad follows l.93-106 for any  *)
(* pretrained artifact and key string, SpecDecay runs the set-up for any   *)
(* layer-decay rate, SpecSteps runs the controller for any number of       *)
(* training steps per epoch.                                               *)
(***************************************************************************)
EXTENDS Integers, Sequences, FiniteSets, TLC

\* ------------------------------------------------------------- bounds
MaxEpochs == 2
MaxFreq == 2
MaxAcc == 2
MaxRestarts == 1
MaxKeyLen == 3
MaxData == 4
MaxBatch == 2

\* ------------------------------------------------------------- inputs
ModelNames == {"convnext_base", "resnet50"}
\* args.layer_decay as the fraction num/den, den > 0
Rate(n, d) == [num |-> n, den |-> d]
LayerDecays == {Rate(1, 2), Rate(1, 1)}
Accs == 0..MaxAcc
EpochIds == 0..(MaxEpochs - 1)
\* what the caller of main() may have bound in the module globals: nothing
\* (python main.py), then one more of the names main() reads at a time
PresetGlobals == {{}, {"mixup_fn"}, {"mixup_fn", "wandb"},
                  {"mixup_fn", "wandb", "model"}}

\* weights identifiers: -1 the weights after load_state_dict of the
\* pretrained table, e >= 0 the weights after train_one_epoch of epoch e
InitWeights == -1
NoCkpt == -2

VARIABLES
    argv,            \* the parsed command line (the same for every process)
    preset_globals,  \* module globals bound by the caller before main()
    module_globals,  \* module globals bound now
    args,            \* the Namespace handed to main(), mutated by main()
    config_txt,      \* config.txt: the snapshots written so far
    pc, err,
    logger, dataset_val, data_loader_val, wandb_logger, model_ema,
    assigner, optimizer, schedules, weights,
    epoch, max_accuracy, max_accuracy_ema, log_stats,
    ckpt_epoch, ckpt_best, ckpt_best_ema,   \* checkpoint-<tag>.pth
    record_txt,      \* record.txt, one entry per line
    \* history of the run, not read by the program
    observed, best_saved_at, decided,
    eval_calls, resumed_from, run_trained, trained, restarts,
    dataset_train,   \* len(dataset_train)
    multipliers,     \* the list handed to LayerDecayValueAssigner
    num_training_steps_per_epoch,
    schedule_len,    \* len(lr_schedule_values) = len(wd_schedule_values)
    handed,          \* the global step indices handed to the training steps
    ckpt_best_acc,   \* the accuracy measured on the state in "best"
    \* the pretrained weights, l.93-106
    finetune,        \* the artifact stored at args.finetune
    state_dict,      \* the shapes of the model's own head entries
    checkpoint_model

pretrained == <<finetune, state_dict, checkpoint_model>>
inputs == <<argv, preset_globals, dataset_train, pretrained>>
step_locals == <<multipliers, num_training_steps_per_epoch, schedule_len>>
setup_locals == <<logger, dataset_val, data_loader_val, wandb_logger,
                  model_ema, assigner, optimizer, schedules, step_locals>>
loop_locals == <<epoch, max_accuracy, max_accuracy_ema, log_stats>>
run_history == <<observed, best_saved_at,
                 decided, eval_calls, resumed_from, run_trained, handed>>
process_vars == <<module_globals, args, pc, err, setup_locals, weights,
                  loop_locals, run_history>>
ckpt_vars == <<ckpt_epoch, ckpt_best, ckpt_best_ema, ckpt_best_acc>>
disk_vars == <<config_txt, ckpt_vars, record_txt>>
vars == <<inputs, process_vars, disk_vars, trained, restarts>>

\* ------------------------------------------------------------- helpers
Unbound == -1

Max(a, b) == IF a < b THEN b ELSE a

RECURSIVE SeqMax(_)
SeqMax(s) == IF Len(s) = 1 THEN s[1]
             ELSE Max(s[Len(s)], SeqMax(SubSeq(s, 1, Len(s) - 1)))

EmptyLog == [train |-> FALSE, test |-> FALSE, test_ema |-> FALSE,
             epoch |-> -1, n_parameters |-> FALSE]

\* a string is the sequence of its characters; args.model_key is 'm|e'
DefaultModelKey == <<"m", "|", "e">>

\* argparse.parse_args() followed by l.284: output_dir is joined with
\* '<dataset>_<tag>' and is therefore never empty
ParsedArgs ==
    [eval: BOOLEAN, disable_eval: BOOLEAN, model: ModelNames,
     layer_decay: LayerDecays, model_ema: BOOLEAN, model_ema_eval: BOOLEAN,
     save_ckpt: BOOLEAN, save_ckpt_freq: 1..MaxFreq, epochs: 1..MaxEpochs,
     enable_wandb: BOOLEAN, output_dir: {TRUE}, start_epoch: {0},
     nb_classes: {"default"}, dist_eval: {TRUE}, weight_decay_end: {"None"},
     model_key: {DefaultModelKey}, batch_size: {1}, update_freq: {1}]

\* ------------------------------------------------- pretrained weights
\* the characters of a model_key string and the strings of bounded length
Chars == {"m", "e", "|"}
KeyStrings == UNION {[1..n -> Chars] : n \in 0..MaxKeyLen}

\* the top-level keys an artifact may hold besides parameter names
TopKeys == {<<"m">>, <<"e">>}

\* l.103: the classifier-head entries, in the order of the loop
HeadKeys == <<"head.weight", "head.bias">>
ParamNames == {"head.weight", "head.bias", "stem.weight"}

\* the shape of an entry (for a head entry its number of classes); Absent:
\* the table has no entry under the name
Absent == 0
Shapes == {200, 1000}
Tables == {t \in [ParamNames -> {Absent} \cup Shapes] :
              t["stem.weight"] # 1000}

\* the value under a top-level key: no such key, None, or a nested dict
AbsentValue == [kind |-> "absent"]
NoneValue == [kind |-> "None"]
NoTop == [k \in TopKeys |-> AbsentValue]
Dict(top, params) == [kind |-> "dict", top |-> top, params |-> params]
NestedTables == {Dict(NoTop, t) : t \in {u \in Tables : u["stem.weight"] # Absent}}

\* what torch.load(args.finetune) may return: a dict with top-level keys
\* and parameter entries
Artifacts == {Dict(top, t) :
                top \in [TopKeys -> {AbsentValue, NoneValue} \cup NestedTables],
                t \in Tables}

\* the head shapes of the model built at l.83-92
ModelHeads == {[k \in {"head.weight", "head.bias"} |-> n] : n \in Shapes}

\* str.split('|')
RECURSIVE Split(_)
Split(s) ==
    IF \A i \in 1..Len(s) : s[i] # "|" THEN <<s>>
    ELSE LET i == CHOOSE j \in 1..Len(s) :
                    s[j] = "|" /\ \A h \in 1..(j - 1) : s[h] # "|"
         IN <<SubSeq(s, 1, i - 1)>> \o Split(SubSeq(s, i + 1, Len(s)))

\* l.96: model_key in checkpoint.  A key spelled like a parameter name is
\* outside the alphabet of KeyStrings.
InCheckpoint(key, checkpoint) ==
    key \in TopKeys /\ checkpoint.top[key] # AbsentValue

\* l.94-99: checkpoint_model starts as None and takes the value under the
\* first key of the list that is in the checkpoint; the loop breaks there
RECURSIVE ProbeKeys(_, _)
ProbeKeys(checkpoint, keys) ==
    IF keys = <<>> THEN NoneValue
    ELSE IF InCheckpoint(Head(keys), checkpoint)
         THEN checkpoint.top[Head(keys)]
         ELSE ProbeKeys(checkpoint, Tail(keys))

\* l.94-101: the whole checkpoint when checkpoint_model is None after the loop
SelectCheckpointModel(checkpoint, keys) ==
    IF ProbeKeys(checkpoint, keys) = NoneValue THEN checkpoint
    ELSE ProbeKeys(checkpoint, keys)

\* the head entry is deleted whenever the table has it
DelIfMismatch_AnyShape(table, sd, k) ==
    IF table.params[k] # Absent
    THEN [table EXCEPT !.params[k] = Absent]
    ELSE table

\* l.104-105: del checkpoint_model[k] when k is in the table with a shape
\* other than the model's
DelIfMismatch(table, sd, k) ==
    IF table.params[k] # Absent /\ table.params[k] # sd[k]
    THEN [table EXCEPT !.params[k] = Absent]
    ELSE table

\* l.103-105: the loop over the head entries
RECURSIVE StripHead(_, _, _)
StripHead(table, sd, ks) ==
    IF ks = <<>> THEN table
    ELSE StripHead(DelIfMismatch(table, sd, Head(ks)), sd, Tail(ks))

\* the artifact and model of the controller's runs: a nested table under
\* 'm' whose head has another number of classes than the model
DefaultArtifact ==
    Dict([NoTop EXCEPT ![<<"m">>] =
             Dict(NoTop, [k \in ParamNames |-> IF k = "stem.weight" THEN 200 ELSE 1000])],
         [k \in ParamNames |-> Absent])
DefaultHead == [k \in {"head.weight", "head.bias"} |-> 200]
NotLoaded == [kind |-> "unbound"]

\* the state of a process that has just been started
ProcessStart ==
    /\ module_globals = preset_globals
    /\ args = argv
    /\ pc = "main_script"
    /\ err = "none"
    /\ logger = "unbound"
    /\ dataset_val = "unbound"
    /\ data_loader_val = "unbound"
    /\ wandb_logger = "unbound"
    /\ model_ema = "unbound"
    /\ assigner = "unbound"
    /\ optimizer = "unbound"
    /\ schedules = FALSE
    /\ weights = InitWeights
    /\ epoch = Unbound
    /\ max_accuracy = Unbound
    /\ max_accuracy_ema = Unbound
    /\ log_stats = EmptyLog
    /\ observed = <<>>
    /\ best_saved_at = {}
    /\ decided = {}
    /\ eval_calls = 0
    /\ resumed_from = NoCkpt
    /\ run_trained = <<>>
    /\ multipliers = <<>>
    /\ num_training_steps_per_epoch = Unbound
    /\ schedule_len = Unbound
    /\ handed = <<>>

\* an output directory that no run has written to, before the first process
EmptyDisk ==
    /\ config_txt = <<>>
    /\ ckpt_epoch = [e \in EpochIds |-> NoCkpt]
    /\ ckpt_best = NoCkpt
    /\ ckpt_best_ema = NoCkpt
    /\ ckpt_best_acc = NoCkpt
    /\ record_txt = <<>>
    /\ trained = [e \in EpochIds |-> 0]
    /\ restarts = 0

\* the pretrained artifact of the controller's runs; its selection is
\* followed statement by statement in SpecLoad
DefaultPretrained ==
    /\ finetune = DefaultArtifact
    /\ state_dict = DefaultHead
    /\ checkpoint_model = NotLoaded

Init ==
    /\ argv \in ParsedArgs
    /\ preset_globals \in PresetGlobals
    /\ dataset_train = 2
    /\ DefaultPretrained
    /\ ProcessStart
    /\ EmptyDisk

\* an exception leaves main(): the process ends with it
Raise(e) == pc' = "error" /\ err' = e

\* ------------------------------------------------------------- set-up
\* l.279-296: config.txt is opened with 'w' and holds args as they are now
MainScript ==
    /\ pc = "main_script"
    /\ config_txt' = <<args>>
    /\ pc' = "prepare"
    /\ UNCHANGED <<inputs, module_globals, args, err, setup_locals, weights,
                   loop_locals, run_history, ckpt_vars, record_txt, trained,
                   restarts>>

\* l.32-44: the logger exists only when args.eval is False
Prepare ==
    /\ pc = "prepare"
    /\ logger' = IF args.eval = FALSE THEN "logger" ELSE "None"
    /\ pc' = "build_dataset"
    /\ UNCHANGED <<inputs, module_globals, args, err, dataset_val,
                   data_loader_val, wandb_logger, model_ema, assigner,
                   optimizer, schedules, step_locals, weights, loop_locals,
                   run_history, disk_vars, trained, restarts>>

\* l.50 written as args.disable_eval = False
DatasetArgs_WrongField(a) ==
    [a EXCEPT !.nb_classes = "from_dataset",
              !.disable_eval = IF a.disable_eval THEN FALSE ELSE @]

\* l.47 and l.49-50: the two assignments to fields of args
DatasetArgs(a) ==
    [a EXCEPT !.nb_classes = "from_dataset",
              !.dist_eval = IF a.disable_eval THEN FALSE ELSE @]

\* l.47-53
BuildDataset ==
    /\ pc = "build_dataset"
    /\ args' = DatasetArgs(args)
    /\ dataset_val' = IF args.disable_eval THEN "None" ELSE "dataset"
    /\ pc' = "build_loaders"
    /\ UNCHANGED <<inputs, module_globals, err, logger, data_loader_val,
                   wandb_logger, model_ema, assigner, optimizer, schedules,
                   step_locals, weights, loop_locals, run_history, disk_vars,
                   trained, restarts>>

\* l.55-69: DataLoader(dataset_val, ...) is a constructor call; its value is
\* a DataLoader object whatever dataset_val is, never None
BuildLoaders ==
    /\ pc = "build_loaders"
    /\ wandb_logger' = IF args.enable_wandb THEN "WandbLogger" ELSE "None"
    /\ data_loader_val' = "DataLoader"
    /\ pc' = "select_model"
    /\ UNCHANGED <<inputs, module_globals, args, err, logger, dataset_val,
                   model_ema, assigner, optimizer, schedules, step_locals,
                   weights, loop_locals, run_history, disk_vars, trained,
                   restarts>>

\* l.82-108.  Supported: the global model is bound (l.83) and the
\* pretrained table is loaded; logger.info (l.98) runs when one of the
\* model keys is in the artifact (key_found; which table is selected and
\* what is deleted from it is followed in SpecLoad).  Unsupported: l.108
\* builds a ValueError and drops it (there is no raise), and control falls
\* through to l.110.
SelectModel ==
    /\ pc = "select_model"
    /\ IF args.model = "convnext_base"
       THEN \E key_found \in BOOLEAN :
              /\ module_globals' = module_globals \cup {"model"}
              /\ IF key_found /\ logger = "None"
                 THEN Raise("AttributeError:logger@98")
                 ELSE pc' = "to_device" /\ err' = err
       ELSE /\ module_globals' = module_globals
            /\ pc' = "to_device" /\ err' = err
    /\ weights' = InitWeights
    /\ UNCHANGED <<inputs, args, setup_locals, loop_locals, run_history,
                   disk_vars, trained, restarts>>

\* l.110-123: model.to(device) reads the global model; ModelEma is built
\* and announced through logger when args.model_ema
ToDevice ==
    /\ pc = "to_device"
    /\ IF "model" \notin module_globals
       THEN Raise("NameError:model@110") /\ model_ema' = model_ema
       ELSE IF args.model_ema
            THEN /\ model_ema' = "ModelEma"
                 /\ IF logger = "None"
                    THEN Raise("AttributeError:logger@120")
                    ELSE pc' = "layer_decay" /\ err' = err
            ELSE /\ model_ema' = "None"
                 /\ pc' = "layer_decay" /\ err' = err
    /\ UNCHANGED <<inputs, module_globals, args, logger, dataset_val,
                   data_loader_val, wandb_logger, assigner, optimizer,
                   schedules, step_locals, weights, loop_locals, run_history,
                   disk_vars, trained, restarts>>

\* l.129: the rate differs from exactly 1.0
LayerDecayActive(rate) == rate.num < rate.den \/ rate.num > rate.den

\* l.131
ConvNeXtNames == {"convnext_small", "convnext_base", "convnext_large",
                  "convnext_xlarge"}

\* l.130
num_layers == 12

\* b ** k by repeated multiplication; b ** 0 is 1, also for b = 0
RECURSIVE IntPow(_, _)
IntPow(b, k) == IF k = 0 THEN 1 ELSE b * IntPow(b, k - 1)

\* rate ** k
Pow(rate, k) == Rate(IntPow(rate.num, k), IntPow(rate.den, k))

\* the exponent written as i
Exponent_Reversed(i) == i

\* l.133: the exponent of the i-th multiplier, i in range(num_layers + 2)
Exponent(i) == num_layers + 1 - i

\* l.133: list(args.layer_decay ** (num_layers + 1 - i)
\*             for i in range(num_layers + 2))
Multipliers(rate) ==
    [j \in 1..(num_layers + 2) |-> Pow(rate, Exponent(j - 1))]

\* l.126-127: len(dataset_train) // (args.batch_size * args.update_freq)
StepsPerEpoch(n, batch_size, update_freq) == n \div (batch_size * update_freq)

\* l.126-133: assigner is assigned only inside both ifs
LayerDecay ==
    /\ pc = "layer_decay"
    /\ num_training_steps_per_epoch' =
          StepsPerEpoch(dataset_train, args.batch_size, args.update_freq)
    /\ IF LayerDecayActive(args.layer_decay) /\ args.model \in ConvNeXtNames
       THEN /\ multipliers' = Multipliers(args.layer_decay)
            /\ assigner' = "LayerDecayValueAssigner"
       ELSE UNCHANGED <<multipliers, assigner>>
    /\ pc' = "create_optimizer"
    /\ UNCHANGED <<inputs, module_globals, args, err, logger, dataset_val,
                   data_loader_val, wandb_logger, model_ema, optimizer,
                   schedules, schedule_len, weights, loop_locals, run_history,
                   disk_vars, trained, restarts>>

\* l.142-147: the arguments of create_optimizer read the local assigner
CreateOptimizer ==
    /\ pc = "create_optimizer"
    /\ IF assigner = "unbound"
       THEN Raise("UnboundLocalError:assigner@144") /\ optimizer' = optimizer
       ELSE /\ optimizer' = IF assigner # "None" THEN "layer_decay" ELSE "flat"
            /\ pc' = "schedules" /\ err' = err
    /\ UNCHANGED <<inputs, module_globals, args, logger, dataset_val,
                   data_loader_val, wandb_logger, model_ema, assigner,
                   schedules, step_locals, weights, loop_locals, run_history,
                   disk_vars, trained, restarts>>

\* utils.cosine_scheduler(base, end, epochs, niter_per_ep, ...): a sequence
\* with one entry per step of the whole run
ScheduleLength(epochs, niter_per_ep) == epochs * niter_per_ep

\* l.149-158: logger.info, then both cosine schedules, generated with the
\* same two length arguments
Schedules ==
    /\ pc = "schedules"
    /\ IF logger = "None"
       THEN /\ Raise("AttributeError:logger@149")
            /\ UNCHANGED <<schedules, schedule_len, args>>
       ELSE /\ schedules' = TRUE
            /\ schedule_len' =
                  ScheduleLength(args.epochs, num_training_steps_per_epoch)
            /\ args' = [args EXCEPT !.weight_decay_end =
                          IF @ = "None" THEN "weight_decay" ELSE @]
            /\ pc' = "criterion" /\ err' = err
    /\ UNCHANGED <<inputs, module_globals, logger, dataset_val,
                   data_loader_val, wandb_logger, model_ema, assigner,
                   optimizer, multipliers, num_training_steps_per_epoch,
                   weights, loop_locals, run_history, disk_vars, trained,
                   restarts>>

\* l.160-168: mixup_fn is read from the module globals
Criterion ==
    /\ pc = "criterion"
    /\ IF "mixup_fn" \notin module_globals
       THEN Raise("NameError:mixup_fn@160")
       ELSE pc' = "auto_load" /\ err' = err
    /\ UNCHANGED <<inputs, module_globals, args, setup_locals, weights,
                   loop_locals, run_history, disk_vars, trained, restarts>>

\* the epoch tags that hold a checkpoint
SavedEpochs(store) == {e \in EpochIds : store[e] # NoCkpt}

RECURSIVE SetMax(_)
SetMax(S) == LET x == CHOOSE y \in S : TRUE
             IN IF S = {x} THEN x ELSE Max(x, SetMax(S \ {x}))

\* l.170-172, utils.auto_load_model: the checkpoint of the latest saved epoch
\* replaces the training state and args.start_epoch becomes that epoch + 1;
\* without a checkpoint nothing changes
AutoLoad ==
    /\ pc = "auto_load"
    /\ IF SavedEpochs(ckpt_epoch) = {}
       THEN UNCHANGED <<args, weights, resumed_from>>
       ELSE LET k == SetMax(SavedEpochs(ckpt_epoch))
            IN /\ weights' = ckpt_epoch[k]
               /\ args' = [args EXCEPT !.start_epoch = k + 1]
               /\ resumed_from' = k
    /\ pc' = "eval_or_train"
    /\ UNCHANGED <<inputs, module_globals, err, setup_locals, loop_locals,
                   observed, best_saved_at, decided,
                   eval_calls, run_trained, handed, disk_vars, trained,
                   restarts>>

\* ------------------------------------------------------------- training
\* l.174-190: the evaluation-only branch reports one accuracy and returns;
\* otherwise the best values are initialised, max_accuracy_ema only when
\* both EMA flags are set
EmaEvalEnabled == args.model_ema /\ args.model_ema_eval

EvalOrTrain ==
    /\ pc = "eval_or_train"
    /\ IF args.eval
       THEN /\ eval_calls' = eval_calls + 1
            /\ pc' = "done"
            /\ UNCHANGED <<max_accuracy, max_accuracy_ema>>
       ELSE /\ max_accuracy' = 0
            /\ max_accuracy_ema' = IF EmaEvalEnabled THEN 0 ELSE max_accuracy_ema
            /\ pc' = "loop_head"
            /\ UNCHANGED eval_calls
    /\ UNCHANGED <<inputs, module_globals, args, err, setup_locals, weights,
                   epoch, log_stats, observed, best_saved_at,
                   decided, resumed_from, run_trained, handed,
                   disk_vars, trained, restarts>>

\* range(0, args.epochs): the loop ignores args.start_epoch
NextEpoch_FromZero == IF epoch = Unbound THEN 0 ELSE epoch + 1

\* a loop that advances by two
NextEpoch_SkipOne == IF epoch = Unbound THEN args.start_epoch ELSE epoch + 2

\* l.191: for epoch in range(args.start_epoch, args.epochs)
NextEpoch == IF epoch = Unbound THEN args.start_epoch ELSE epoch + 1

LoopHead ==
    /\ pc = "loop_head"
    /\ IF NextEpoch < args.epochs
       THEN epoch' = NextEpoch /\ pc' = "train"
       ELSE epoch' = epoch /\ pc' = "finish"
    /\ UNCHANGED <<inputs, module_globals, args, err, setup_locals, weights,
                   max_accuracy, max_accuracy_ema, log_stats, run_history,
                   disk_vars, trained, restarts>>

\* start_steps written as the epoch index alone
StartSteps_EpochOnly(e, steps_per_epoch) == e

\* l.200: start_steps=epoch * num_training_steps_per_epoch
StartSteps(e, steps_per_epoch) == e * steps_per_epoch

\* train_one_epoch: the local steps 0 .. num_training_steps_per_epoch - 1,
\* each handed the index start_steps + step into both schedules
GlobalSteps(start_steps, steps_per_epoch) ==
    [i \in 1..steps_per_epoch |-> start_steps + (i - 1)]

\* l.197-204: train_one_epoch
Train ==
    /\ pc = "train"
    /\ weights' = epoch
    /\ trained' = [trained EXCEPT ![epoch] = @ + 1]
    /\ run_trained' = Append(run_trained, epoch)
    /\ handed' = handed \o
          GlobalSteps(StartSteps(epoch, num_training_steps_per_epoch),
                      num_training_steps_per_epoch)
    /\ pc' = "save_params"
    /\ UNCHANGED <<inputs, module_globals, args, err, setup_locals,
                   loop_locals, observed, best_saved_at,
                   decided, eval_calls, resumed_from,
                   disk_vars, restarts>>

\* l.206, l.222, l.248
SavingEnabled == args.output_dir /\ args.save_ckpt

\* the cadence test without the final-epoch clause
SaveDue_CadenceOnly(e) == (e + 1) % args.save_ckpt_freq = 0

\* l.207
SaveDue(e) == (e + 1) % args.save_ckpt_freq = 0 \/ e + 1 = args.epochs

\* l.206-210: utils.save_model(..., epoch=epoch, ...)
SaveParams ==
    /\ pc = "save_params"
    /\ ckpt_epoch' = IF SavingEnabled /\ SaveDue(epoch)
                     THEN [ckpt_epoch EXCEPT ![epoch] = weights]
                     ELSE ckpt_epoch
    /\ decided' = decided \cup {epoch}
    /\ pc' = "evaluate"
    /\ UNCHANGED <<inputs, module_globals, args, err, setup_locals, weights,
                   loop_locals, observed, best_saved_at,
                   eval_calls, resumed_from, run_trained, handed,
                   config_txt, ckpt_best, ckpt_best_ema, ckpt_best_acc,
                   record_txt, trained, restarts>>

\* the comparison written as "differs from the best"
IsNewBest_Differs(best, acc) == best # acc

\* l.217 and l.246: strict comparison
IsNewBest(best, acc) == best < acc

\* the EMA save written with the tag of the primary save
BestEmaTag_Primary == "best"

\* the tags of l.225 and l.251
BestTag == "best"
BestEmaTag == "best-ema"

\* the save made whether or not the accuracy is a new best
SaveModel_Always(do, tag) ==
    /\ ckpt_best' = IF tag = "best" THEN weights ELSE ckpt_best
    /\ ckpt_best_ema' = IF tag = "best-ema" THEN weights ELSE ckpt_best_ema

\* utils.save_model(..., epoch=tag, ...) for the two named tags: the
\* artifact under the tag is overwritten with the current state
SaveModel(do, tag) ==
    /\ ckpt_best' = IF do /\ tag = "best" THEN weights ELSE ckpt_best
    /\ ckpt_best_ema' = IF do /\ tag = "best-ema" THEN weights ELSE ckpt_best_ema

\* l.235-238 and l.257-259
LogStats(with_test) ==
    [train |-> TRUE, test |-> with_test, test_ema |-> FALSE,
     epoch |-> epoch, n_parameters |-> TRUE]

\* l.213-238 and the else of l.256-259.  evaluate() is run on the loader;
\* over a loader that wraps dataset None it may raise.  When the accuracy
\* is a new best, l.218 assigns it, l.220 reads the global wandb if a
\* wandb logger exists, and l.223 saves under "best".  l.227 takes
\* len(dataset_val), which raises when dataset_val is None.  The validation
\* loader drops the last batch (l.68-69), so it can hold no batch at all;
\* evaluate() then has no acc1 to return, and either it raises or the
\* subscript test_stats['acc1'] of l.216 does: there is no handler.
Evaluate ==
    /\ pc = "evaluate"
    /\ IF data_loader_val # "None"
       THEN /\ eval_calls' = eval_calls + 1
            /\ \/ /\ dataset_val = "None"
                  /\ Raise("TypeError:evaluate@214")
                  /\ UNCHANGED <<max_accuracy, ckpt_best, ckpt_best_ema,
                                 ckpt_best_acc, observed, best_saved_at,
                                 log_stats>>
               \/ /\ Raise("Error:no_eval_result@214-216")
                  /\ UNCHANGED <<max_accuracy, ckpt_best, ckpt_best_ema,
                                 ckpt_best_acc, observed, best_saved_at,
                                 log_stats>>
               \/ \E acc \in Accs :
                    LET new == IsNewBest(max_accuracy, acc)
                    IN /\ observed' = Append(observed, acc)
                       /\ max_accuracy' = IF new THEN acc ELSE max_accuracy
                       /\ IF new /\ wandb_logger # "None"
                             /\ "wandb" \notin module_globals
                          THEN /\ Raise("NameError:wandb@220")
                               /\ UNCHANGED <<ckpt_best, ckpt_best_ema,
                                              ckpt_best_acc, best_saved_at,
                                              log_stats>>
                          ELSE /\ SaveModel(new /\ SavingEnabled, BestTag)
                               /\ ckpt_best_acc' =
                                    IF new /\ SavingEnabled THEN acc
                                    ELSE ckpt_best_acc
                               /\ best_saved_at' =
                                    IF new /\ SavingEnabled
                                    THEN best_saved_at \cup {Len(observed) + 1}
                                    ELSE best_saved_at
                               /\ IF dataset_val = "None"
                                  THEN /\ Raise("TypeError:len@227")
                                       /\ log_stats' = log_stats
                                  ELSE /\ log_stats' = LogStats(TRUE)
                                       /\ pc' = "evaluate_ema" /\ err' = err
       ELSE /\ log_stats' = LogStats(FALSE)
            /\ pc' = "log" /\ err' = err
            /\ UNCHANGED <<eval_calls, max_accuracy, ckpt_best, ckpt_best_ema,
                           ckpt_best_acc, observed, best_saved_at>>
    /\ UNCHANGED <<inputs, module_globals, args, setup_locals, weights,
                   epoch, max_accuracy_ema,
                   decided, resumed_from, run_trained, handed, config_txt,
                   ckpt_epoch, record_txt, trained, restarts>>

\* l.241-255, inside the branch of l.213: evaluate() on model_ema.ema
EvaluateEma ==
    /\ pc = "evaluate_ema"
    /\ IF EmaEvalEnabled
       THEN \E acc \in Accs :
              LET new == IsNewBest(max_accuracy_ema, acc)
              IN /\ eval_calls' = eval_calls + 1
                 /\ max_accuracy_ema' = IF new THEN acc ELSE max_accuracy_ema
                 /\ SaveModel(new /\ SavingEnabled, BestEmaTag)
                 /\ log_stats' = [log_stats EXCEPT !.test_ema = TRUE]
       ELSE UNCHANGED <<eval_calls, max_accuracy_ema, ckpt_best,
                        ckpt_best_ema, log_stats>>
    /\ pc' = "log"
    /\ UNCHANGED <<inputs, module_globals, args, err, setup_locals, weights,
                   epoch, max_accuracy, observed, best_saved_at, decided,
                   resumed_from, run_trained, handed, config_txt, ckpt_epoch,
                   ckpt_best_acc, record_txt, trained, restarts>>

\* record.txt opened with mode "w": the new line replaces the file
WriteRecord_Truncating(file, entry) == <<entry>>

\* l.264-265: record.txt is opened with mode "a" and one line is written
WriteRecord(file, entry) == Append(file, entry)

\* l.261-268: one line appended to record.txt
Log ==
    /\ pc = "log"
    /\ record_txt' = IF args.output_dir THEN WriteRecord(record_txt, log_stats)
                     ELSE record_txt
    /\ pc' = "loop_head"
    /\ UNCHANGED <<inputs, module_globals, args, err, setup_locals, weights,
                   loop_locals, run_history, config_txt, ckpt_vars, trained,
                   restarts>>

\* l.270-276: the elapsed time is reported and main() returns
Finish ==
    /\ pc = "finish"
    /\ pc' = "done"
    /\ UNCHANGED <<inputs, module_globals, args, err, setup_locals, weights,
                   loop_locals, run_history, disk_vars, trained, restarts>>

\* ------------------------------------------------------------- processes
LoopPcs == {"loop_head", "train", "save_params", "evaluate", "evaluate_ema",
            "log"}

\* the process is ended from outside while it is in the epoch loop: what it
\* held in memory is gone, the files stay
Terminate ==
    /\ pc \in LoopPcs
    /\ module_globals' = preset_globals
    /\ args' = argv
    /\ pc' = "killed"
    /\ err' = "none"
    /\ logger' = "unbound"
    /\ dataset_val' = "unbound"
    /\ data_loader_val' = "unbound"
    /\ wandb_logger' = "unbound"
    /\ model_ema' = "unbound"
    /\ assigner' = "unbound"
    /\ optimizer' = "unbound"
    /\ schedules' = FALSE
    /\ weights' = InitWeights
    /\ epoch' = Unbound
    /\ max_accuracy' = Unbound
    /\ max_accuracy_ema' = Unbound
    /\ log_stats' = EmptyLog
    /\ observed' = <<>>
    /\ best_saved_at' = {}
    /\ decided' = {}
    /\ eval_calls' = 0
    /\ resumed_from' = NoCkpt
    /\ run_trained' = <<>>
    /\ multipliers' = <<>>
    /\ num_training_steps_per_epoch' = Unbound
    /\ schedule_len' = Unbound
    /\ handed' = <<>>
    /\ UNCHANGED <<inputs, disk_vars, trained, restarts>>

\* the same command line is started again on the same output directory
Restart ==
    /\ pc \in {"killed", "done", "error"}
    /\ restarts < MaxRestarts
    /\ restarts' = restarts + 1
    /\ module_globals' = preset_globals
    /\ args' = argv
    /\ pc' = "main_script"
    /\ err' = "none"
    /\ logger' = "unbound"
    /\ dataset_val' = "unbound"
    /\ data_loader_val' = "unbound"
    /\ wandb_logger' = "unbound"
    /\ model_ema' = "unbound"
    /\ assigner' = "unbound"
    /\ optimizer' = "unbound"
    /\ schedules' = FALSE
    /\ weights' = InitWeights
    /\ epoch' = Unbound
    /\ max_accuracy' = Unbound
    /\ max_accuracy_ema' = Unbound
    /\ log_stats' = EmptyLog
    /\ observed' = <<>>
    /\ best_saved_at' = {}
    /\ decided' = {}
    /\ eval_calls' = 0
    /\ resumed_from' = NoCkpt
    /\ run_trained' = <<>>
    /\ multipliers' = <<>>
    /\ num_training_steps_per_epoch' = Unbound
    /\ schedule_len' = Unbound
    /\ handed' = <<>>
    /\ UNCHANGED <<inputs, disk_vars, trained>>

Next ==
    \/ MainScript \/ Prepare \/ BuildDataset \/ BuildLoaders \/ SelectModel
    \/ ToDevice \/ LayerDecay \/ CreateOptimizer \/ Schedules \/ Criterion
    \/ AutoLoad \/ EvalOrTrain \/ LoopHead \/ Train \/ SaveParams
    \/ Evaluate \/ EvaluateEma \/ Log \/ Finish \/ Terminate \/ Restart

Spec == Init /\ [][Next]_vars

\* ------------------------------------------- l.93-106 statement by statement
\* a training command line that main() can run to the end
DefaultArgs ==
    [eval |-> FALSE, disable_eval |-> FALSE, model |-> "convnext_base",
     layer_decay |-> Rate(1, 2), model_ema |-> FALSE,
     model_ema_eval |-> FALSE, save_ckpt |-> TRUE, save_ckpt_freq |-> 1,
     epochs |-> 1, enable_wandb |-> FALSE, output_dir |-> TRUE,
     start_epoch |-> 0, nb_classes |-> "default", dist_eval |-> TRUE,
     weight_decay_end |-> "None", model_key |-> DefaultModelKey,
     batch_size |-> 1, update_freq |-> 1]

\* a process that has built the model (l.83-92) and is about to load the
\* pretrained artifact: any artifact, any key string, either head size, in
\* training mode or in evaluation mode
InitLoad ==
    /\ argv \in {[DefaultArgs EXCEPT !.model_key = k, !.eval = ev] :
                   k \in KeyStrings, ev \in BOOLEAN}
    /\ preset_globals = {}
    /\ dataset_train = 2
    /\ finetune \in Artifacts
    /\ state_dict \in ModelHeads
    /\ checkpoint_model = NotLoaded
    /\ module_globals = {"model"}
    /\ args = DatasetArgs(argv)
    /\ pc = "torch_load"
    /\ err = "none"
    /\ logger = IF argv.eval THEN "None" ELSE "logger"
    /\ dataset_val = "dataset"
    /\ data_loader_val = "DataLoader"
    /\ wandb_logger = "None"
    /\ model_ema = "unbound"
    /\ assigner = "unbound"
    /\ optimizer = "unbound"
    /\ schedules = FALSE
    /\ weights = InitWeights
    /\ epoch = Unbound
    /\ max_accuracy = Unbound
    /\ max_accuracy_ema = Unbound
    /\ log_stats = EmptyLog
    /\ observed = <<>>
    /\ best_saved_at = {}
    /\ decided = {}
    /\ eval_calls = 0
    /\ resumed_from = NoCkpt
    /\ run_trained = <<>>
    /\ multipliers = <<>>
    /\ num_training_steps_per_epoch = Unbound
    /\ schedule_len = Unbound
    /\ handed = <<>>
    /\ config_txt = <<argv>>
    /\ ckpt_epoch = [e \in EpochIds |-> NoCkpt]
    /\ ckpt_best = NoCkpt
    /\ ckpt_best_ema = NoCkpt
    /\ ckpt_best_acc = NoCkpt
    /\ record_txt = <<>>
    /\ trained = [e \in EpochIds |-> 0]
    /\ restarts = 0

\* what the statements of l.93-106 leave alone
load_frame == <<argv, preset_globals, dataset_train, finetune, state_dict,
                module_globals, args, setup_locals, weights, loop_locals,
                run_history, disk_vars, trained, restarts>>

\* l.93-101: checkpoint = torch.load(args.finetune); the keys of
\* args.model_key.split('|') are probed in order, logger.info (l.98) runs
\* when one is in the checkpoint, and a checkpoint_model that is None after
\* the loop is replaced by the whole checkpoint
LoadCheckpointModel ==
    /\ pc = "torch_load"
    /\ LET keys == Split(args.model_key)
       IN /\ checkpoint_model' = SelectCheckpointModel(finetune, keys)
          /\ IF (\E i \in 1..Len(keys) : InCheckpoint(keys[i], finetune))
                /\ logger = "None"
             THEN Raise("AttributeError:logger@98")
             ELSE pc' = "strip_head" /\ err' = err
    /\ UNCHANGED load_frame

\* l.102-106: the head entries whose shape differs from the model's are
\* deleted and checkpoint_model is handed to utils.load_state_dict
StripHeadAndLoad ==
    /\ pc = "strip_head"
    /\ checkpoint_model' = StripHead(checkpoint_model, state_dict, HeadKeys)
    /\ pc' = "to_device"
    /\ err' = err
    /\ UNCHANGED load_frame

NextLoad == LoadCheckpointModel \/ StripHeadAndLoad

SpecLoad == InitLoad /\ [][NextLoad]_vars

\* ------------------------------------------- the set-up for any decay rate
\* rates below 0, 0, between 0 and 1, 1 and above 1
WideRates == {Rate(-1, 2), Rate(0, 1), Rate(1, 5), Rate(1, 3), Rate(1, 2),
              Rate(1, 1), Rate(2, 1), Rate(3, 1)}

InitDecay ==
    /\ argv \in {[DefaultArgs EXCEPT !.layer_decay = r, !.model = m,
                                     !.eval = ev, !.model_ema = me] :
                   r \in WideRates, m \in ModelNames, ev \in BOOLEAN,
                   me \in BOOLEAN}
    /\ preset_globals \in PresetGlobals
    /\ dataset_train = 2
    /\ DefaultPretrained
    /\ ProcessStart
    /\ EmptyDisk

\* main() from its call to the construction of the optimizer
NextDecay ==
    \/ MainScript \/ Prepare \/ BuildDataset \/ BuildLoaders \/ SelectModel
    \/ ToDevice \/ LayerDecay \/ CreateOptimizer

SpecDecay == InitDecay /\ [][NextDecay]_vars

\* ------------------------------- the controller for any steps per epoch
\* every name main() reads is bound, the command line is one that trains;
\* the size of the training set, batch_size, update_freq and epochs vary
InitSteps ==
    /\ argv \in {[DefaultArgs EXCEPT !.epochs = n, !.batch_size = b,
                                     !.update_freq = u] :
                   n \in 1..MaxEpochs, b \in 1..MaxBatch, u \in 1..MaxBatch}
    /\ preset_globals = {"mixup_fn", "wandb", "model"}
    /\ dataset_train \in 0..MaxData
    /\ DefaultPretrained
    /\ ProcessStart
    /\ EmptyDisk

SpecSteps == InitSteps /\ [][Next]_vars

\* ------------------------------------------------------------- properties
\* the i-th accuracy observed in this run exceeds every earlier one
StrictNewMax(i) == \A j \in 1..(i - 1) : observed[j] < observed[i]

\* the steps of one process: not the start of a process, not its end
InRunStep == pc' # "main_script" /\ pc' # "killed"

\* C1: once the loop has processed accuracies in a run, max_accuracy is the
\* maximum of the accuracies observed so far in that run, and no step of
\* the run lowers max_accuracy.
C1_BestIsRunningMax ==
    /\ [](observed # <<>> => max_accuracy = SeqMax(observed))
    /\ [][InRunStep => max_accuracy' >= max_accuracy]_vars

\* C1 witness: two accuracies processed, the second below the first
C1_Witness ==
    /\ Len(observed) = 2
    /\ observed[2] < observed[1]
    /\ max_accuracy = observed[1]

\* the i-th accuracy observed in this run exceeds the initial best 0.0 and
\* every earlier accuracy of the run
ExceedsBestSoFar(i) == observed[i] > 0 /\ StrictNewMax(i)

\* C2 (as claimed): with saving enabled, the evaluations followed by a
\* "best" save are exactly those whose accuracy is a strict new maximum of
\* the run, never one that ties or is below the current best.  The claim is
\* read in the way most favourable to the code: the initial best 0.0 counts
\* as a value to exceed.
C2_BestSavedExactlyOnStrictMax ==
    (args.output_dir /\ args.save_ckpt) =>
        \A i \in 1..Len(observed) :
            (i \in best_saved_at) <=> ExceedsBestSoFar(i)

\* C3 (as claimed): no epoch index is trained twice, whatever the history
\* of terminations and resumes.
C3_NoEpochTrainedTwice == \A e \in EpochIds : trained[e] <= 1

\* C3 (amended): after a resume from the checkpoint of epoch k the first
\* epoch executed is k + 1, and an epoch is never trained while a
\* checkpoint tagged with it or with a later epoch exists.
C3_ResumeContinuesAfterCheckpoint ==
    /\ (resumed_from # NoCkpt /\ run_trained # <<>>)
          => run_trained[1] = resumed_from + 1
    /\ (resumed_from = NoCkpt /\ run_trained # <<>>) => run_trained[1] = 0
    /\ pc = "train"
          => \A t \in EpochIds : t >= epoch => ckpt_epoch[t] = NoCkpt

\* C3 witness: a resumed process has trained the epoch after its checkpoint
C3_Witness ==
    /\ restarts > 0
    /\ resumed_from = 0
    /\ run_trained = <<1>>
    /\ trained[0] = 1

\* the exceptions raised by main()'s own statements
OwnErrors == {"AttributeError:logger@98", "NameError:model@110",
              "AttributeError:logger@120", "UnboundLocalError:assigner@144",
              "AttributeError:logger@149", "NameError:mixup_fn@160",
              "NameError:wandb@220", "TypeError:len@227"}

\* C4 (as claimed): in training mode with a supported model main() raises
\* no error of its own, and a finished run has trained every epoch from
\* start_epoch on.
C4_TrainingRunsToCompletion ==
    (~argv.eval /\ argv.model = "convnext_base") =>
        /\ err \notin OwnErrors
        /\ pc = "done" =>
             \A e \in EpochIds :
                (args.start_epoch <= e /\ e < args.epochs) => trained[e] > 0

\* C5: with saving enabled, an epoch whose save step has run has a
\* checkpoint under its own tag exactly when (e+1) mod save_ckpt_freq = 0 or
\* e+1 = epochs, and that checkpoint holds the state after that epoch; a
\* finished run leaves the checkpoint of epoch epochs-1.
C5_CadenceCheckpoint ==
    (args.output_dir /\ args.save_ckpt) =>
        /\ \A e \in decided :
              /\ (ckpt_epoch[e] # NoCkpt) <=>
                    ((e + 1) % args.save_ckpt_freq = 0 \/ e + 1 = args.epochs)
              /\ ckpt_epoch[e] \in {NoCkpt, e}
        /\ pc = "done" => ckpt_epoch[args.epochs - 1] = args.epochs - 1

\* C5 witness: a finished run that skipped the save of epoch 0 and saved
\* the final epoch 1
C5_Witness ==
    /\ pc = "done"
    /\ args.save_ckpt
    /\ decided = {0, 1}
    /\ ckpt_epoch[0] = NoCkpt
    /\ ckpt_epoch[1] = 1

\* C6 (as claimed): an evaluation-only run does not fail before its report
\* and builds no optimizer, generates no schedule, enters no epoch and
\* writes no checkpoint.
C6_EvalOnlyIsPureInference ==
    argv.eval =>
        /\ pc # "error"
        /\ optimizer = "unbound"
        /\ schedules = FALSE
        /\ epoch = Unbound
        /\ ckpt_epoch = [e \in EpochIds |-> NoCkpt]
        /\ ckpt_best = NoCkpt
        /\ ckpt_best_ema = NoCkpt

\* C7: the primary evaluation step leaves max_accuracy_ema and the
\* "best-ema" artifact alone, the EMA evaluation step leaves max_accuracy
\* and the "best" artifact alone, neither touches an epoch-tagged artifact,
\* and the EMA model is evaluated only when model_ema and model_ema_eval
\* are both set.
C7_TracksIndependent ==
    [][InRunStep =>
         /\ pc = "evaluate" =>
               /\ max_accuracy_ema' = max_accuracy_ema
               /\ ckpt_best_ema' = ckpt_best_ema
               /\ ckpt_epoch' = ckpt_epoch
         /\ pc = "evaluate_ema" =>
               /\ max_accuracy' = max_accuracy
               /\ ckpt_best' = ckpt_best
               /\ ckpt_epoch' = ckpt_epoch
               /\ (eval_calls' # eval_calls \/ max_accuracy_ema' # max_accuracy_ema
                     \/ ckpt_best_ema' # ckpt_best_ema)
                    => (args.model_ema /\ args.model_ema_eval)]_vars

\* C7 witness: both tracks have improved, at different epochs and to
\* different values
C7_Witness ==
    /\ pc = "log"
    /\ max_accuracy > 0
    /\ max_accuracy_ema > max_accuracy
    /\ ckpt_best = 0
    /\ ckpt_best_ema = 1

\* C8 (as claimed): with an unsupported model identifier main() stops at
\* model selection with the ValueError and takes no later step.
C8_UnsupportedModelStopsAtSelection ==
    argv.model # "convnext_base" =>
        \/ pc \in {"main_script", "prepare", "build_dataset", "build_loaders",
                   "select_model"}
        \/ pc = "error" /\ err = "ValueError:model@108"

\* C9 (as claimed): with layer_decay exactly 1.0 no assigner is built and
\* the optimizer is built flat, without an error.
C9_FlatScaleWhenDecayIsOne ==
    argv.layer_decay = Rate(1, 1) =>
        /\ assigner # "LayerDecayValueAssigner"
        /\ err # "UnboundLocalError:assigner@144"
        /\ optimizer \in {"unbound", "flat"}
        /\ pc \in {"schedules", "criterion", "auto_load", "eval_or_train"}
              => optimizer = "flat"

\* C10 (as claimed): with disable_eval no epoch invokes evaluate, the best
\* values stay as initialised, no "best"/"best-ema" artifact is written and
\* every log entry holds train metrics, epoch and n_parameters only.
C10_NoEvaluationWhenDisabled ==
    argv.disable_eval =>
        /\ eval_calls = 0
        /\ max_accuracy \in {Unbound, 0}
        /\ max_accuracy_ema \in {Unbound, 0}
        /\ ckpt_best = NoCkpt
        /\ ckpt_best_ema = NoCkpt
        /\ \A i \in 1..Len(record_txt) :
              /\ record_txt[i].train
              /\ ~record_txt[i].test
              /\ ~record_txt[i].test_ema

\* the epoch indices of the lines of record.txt, in file order
LoggedEpochs == [i \in 1..Len(record_txt) |-> record_txt[i].epoch]

\* C11 (as claimed): the entries of record.txt are in increasing epoch
\* order and, once a run has completed, whatever terminations and resumes
\* came before, there is exactly one entry per epoch index of [0, epochs).
C11_OneEntryPerEpoch ==
    /\ \A i, j \in 1..Len(record_txt) :
          i < j => record_txt[i].epoch < record_txt[j].epoch
    /\ pc = "done" => LoggedEpochs = [i \in 1..args.epochs |-> i - 1]

\* C11 (amended): record.txt changes only by the log step of an epoch,
\* which appends one entry for that epoch and keeps every earlier line; as
\* long as no process has been ended and restarted the entries are those
\* of epochs 0, 1, 2, ... in order, one each, and a run that completes
\* then holds one entry for every epoch of [0, epochs).
C11_AppendOnlyLog ==
    /\ [][record_txt' # record_txt =>
             /\ pc = "log"
             /\ Len(record_txt') = Len(record_txt) + 1
             /\ SubSeq(record_txt', 1, Len(record_txt)) = record_txt
             /\ record_txt'[Len(record_txt')].epoch = epoch]_vars
    /\ [](restarts = 0 =>
             /\ \A i \in 1..Len(record_txt) : record_txt[i].epoch = i - 1
             /\ pc = "done" => Len(record_txt) = args.epochs)
    /\ [][(pc = "log" /\ InRunStep) => Len(record_txt') = Len(record_txt) + 1]_vars

\* C11 witness: an uninterrupted run has completed two epochs and logged
\* both
C11_Witness ==
    /\ restarts = 0
    /\ pc = "done"
    /\ LoggedEpochs = <<0, 1>>

\* C12 (as claimed): an evaluation step without result does not make the
\* controller fail.
C12_NoResultIsRecovered == err # "Error:no_eval_result@214-216"

\* the fields of args that main() and auto_load_model assign
DerivedFields == {"nb_classes", "dist_eval", "weight_decay_end", "start_epoch"}

\* C13 (as claimed): no field of args changes during main(), and config.txt
\* holds the values in effect for the whole run.
C13_ConfigNeverMutated ==
    /\ args = argv
    /\ config_txt # <<>> => config_txt[1] = args

\* C13 (amended): main() assigns only nb_classes, dist_eval,
\* weight_decay_end and start_epoch; every other field of args keeps its
\* parsed value for the whole run, and config.txt, written before main(),
\* holds the values as parsed.
C13_OnlyDerivedFieldsChange ==
    /\ \A f \in (DOMAIN argv) \ DerivedFields : args[f] = argv[f]
    /\ config_txt # <<>> => config_txt[1] = argv

\* C13 witness: a resumed run in which all four derived fields differ from
\* the snapshot
C13_Witness ==
    /\ config_txt = <<argv>>
    /\ args.nb_classes # argv.nb_classes
    /\ args.dist_eval # argv.dist_eval
    /\ args.weight_decay_end # argv.weight_decay_end
    /\ args.start_epoch # argv.start_epoch

\* the positions of the preferred keys that are in the artifact
PresentKeys == {i \in 1..Len(Split(args.model_key)) :
                   InCheckpoint(Split(args.model_key)[i], finetune)}

\* C14 (as claimed): after the selection the weights table is the value
\* under the first preferred key, in list order, that is present in the
\* artifact, and it is the whole artifact exactly when no preferred key is
\* present.
C14_FirstPresentKeyElseWhole ==
    pc = "strip_head" =>
        /\ PresentKeys = {} => checkpoint_model = finetune
        /\ PresentKeys # {} =>
              /\ checkpoint_model =
                    finetune.top[Split(args.model_key)[
                        CHOOSE i \in PresentKeys :
                            \A j \in PresentKeys : i <= j]]
              /\ checkpoint_model # finetune

\* C15: the step of l.102-106 removes an entry of the table exactly when it
\* is head.weight or head.bias, is present and has a shape other than the
\* model's head; every other entry, and every top-level key of the table,
\* is in the table handed to utils.load_state_dict as it was.
C15_OnlyMismatchedHeadRemoved ==
    [][pc = "strip_head" =>
         /\ \A k \in ParamNames :
               checkpoint_model'.params[k] =
                   IF /\ k \in {"head.weight", "head.bias"}
                      /\ checkpoint_model.params[k] # Absent
                      /\ checkpoint_model.params[k] # state_dict[k]
                   THEN Absent
                   ELSE checkpoint_model.params[k]
         /\ checkpoint_model'.top = checkpoint_model.top
         /\ pc' = "to_device"]_vars

\* C15 witness: the table under 'm' had a head.weight for 1000 classes and
\* a head.bias for 200, the model has 200: head.weight is gone, head.bias
\* and stem.weight are handed on
C15_Witness ==
    /\ pc = "to_device"
    /\ state_dict["head.weight"] = 200
    /\ finetune.top[<<"m">>] # AbsentValue
    /\ finetune.top[<<"m">>] # NoneValue
    /\ finetune.top[<<"m">>].params["head.weight"] = 1000
    /\ finetune.top[<<"m">>].params["head.bias"] = 200
    /\ checkpoint_model.params["head.weight"] = Absent
    /\ checkpoint_model.params["head.bias"] = 200
    /\ checkpoint_model.params["stem.weight"] = 200

\* a < b and a = b * c for fractions with positive denominators
Less(a, b) == a.num * b.den < b.num * a.den
IsProduct(a, b, c) == a.num * (b.den * c.den) = (b.num * c.num) * a.den

\* the list handed to the assigner has num_layers + 2 entries, each the
\* next one times the rate, the last one 1: entry i is rate^(num_layers+1-i)
IsDecayLadder ==
    /\ Len(multipliers) = 14
    /\ \A i \in 1..13 :
          IsProduct(multipliers[i], multipliers[i + 1], args.layer_decay)
    /\ multipliers[14].num = multipliers[14].den

StrictlyIncreasing ==
    \A i \in 1..(Len(multipliers) - 1) : Less(multipliers[i], multipliers[i + 1])

C17_StepsInOrder ==
    [][InRunStep =>
         /\ pc = "train" => pc' = "save_params"
         /\ pc = "save_params" => pc' = "evaluate"
         /\ pc = "evaluate" => pc' \in {"evaluate_ema", "log", "error"}
         /\ pc = "evaluate_ema" => pc' = "log"
         /\ pc = "log" => pc' = "loop_head"
         /\ pc' = "train" => pc = "loop_head"
         /\ (pc = "loop_head" /\ pc' = "train" /\ epoch # Unbound) =>
               /\ epoch' = epoch + 1
               /\ record_txt # <<>>
               /\ record_txt[Len(record_txt)].epoch = epoch
         /\ pc = "loop_head" =>
               \/ pc' = "train"
               \/ pc' = "finish" /\ epoch \in {Unbound, args.epochs - 1}
         /\ trained' # trained => pc = "train"
         /\ weights' # weights => pc \in {"train", "auto_load"}
         /\ ckpt_epoch' # ckpt_epoch => pc = "save_params"
         /\ ckpt_best' # ckpt_best => pc = "evaluate"
         /\ ckpt_best_ema' # ckpt_best_ema => pc = "evaluate_ema"
         /\ record_txt' # record_txt => pc = "log"
         /\ epoch' # epoch => pc = "loop_head"]_vars

\* C17 witness: epoch 1 starts after epoch 0 has made all three saves and
\* its log line
C17_Witness ==
    /\ pc = "train"
    /\ epoch = 1
    /\ restarts = 0
    /\ ckpt_epoch[0] = 0
    /\ ckpt_best = 0
    /\ ckpt_best_ema = 0
    /\ LoggedEpochs = <<0>>

\* C18 (as claimed): whatever the terminations and resumes, with
\* evaluation enabled a save under "best" never replaces a state by one of
\* lower evaluated accuracy.
C18_BestNeverReplacedByWorse ==
    [][(~argv.disable_eval /\ ckpt_best_acc # NoCkpt)
          => ckpt_best_acc' >= ckpt_best_acc]_vars

\* the positions of a run that was not interrupted and has not failed
RunningPcs == {"loop_head", "train", "save_params", "evaluate",
               "evaluate_ema", "log", "finish", "done"}

\* C19: in the first process on an empty output directory, with
\* evaluation and saving enabled, whenever a "best" artifact exists at the
\* end of an epoch (and until the next evaluation) it holds the state
\* after the training pass of the epoch whose accuracy is the current best:
\* that epoch was evaluated with max_accuracy, no later epoch reached it.
C19_BestArtifactIsBestEpoch ==
    (/\ restarts = 0
     /\ pc \in RunningPcs
     /\ args.output_dir /\ args.save_ckpt
     /\ ~args.disable_eval
     /\ ckpt_best # NoCkpt) =>
        /\ ckpt_best \in 0..(Len(observed) - 1)
        /\ observed[ckpt_best + 1] = max_accuracy
        /\ \A i \in 1..Len(observed) : observed[i] <= max_accuracy
        /\ \A i \in 1..ckpt_best : observed[i] < max_accuracy

\* C19 witness: epoch 0 set the best, epoch 1 was evaluated below it, and
\* "best" still holds the state of epoch 0
C19_Witness ==
    /\ restarts = 0
    /\ pc = "log"
    /\ epoch = 1
    /\ args.save_ckpt
    /\ observed = <<2, 1>>
    /\ max_accuracy = 2
    /\ ckpt_best = 0

\* C20: the global steps handed to the training steps of a process are,
\* for its k-th executed epoch e and every local step s below the steps
\* per epoch, e * steps_per_epoch + s; each is an index into the two
\* schedules of length epochs * steps_per_epoch, and no two are equal, also
\* in a process that resumed from a checkpoint.
C20_StepIndicesValidAndDistinct ==
    /\ \A i \in 1..Len(handed) : 0 <= handed[i] /\ handed[i] < schedule_len
    /\ \A i, j \in 1..Len(handed) : i < j => handed[i] # handed[j]
    /\ run_trained # <<>> =>
          /\ schedule_len = args.epochs * num_training_steps_per_epoch
          /\ Len(handed) = Len(run_trained) * num_training_steps_per_epoch
          /\ \A k \in 1..Len(run_trained) :
                \A st \in 0..(num_training_steps_per_epoch - 1) :
                    handed[(k - 1) * num_training_steps_per_epoch + st + 1] =
                        run_trained[k] * num_training_steps_per_epoch + st
          /\ \A k \in 1..Len(run_trained) :
                args.start_epoch <= run_trained[k] /\ run_trained[k] < args.epochs

\* C20 witness: a process resumed after epoch 0 has trained epoch 1 with
\* two steps per epoch and handed the steps 2 and 3 of a schedule of 4
C20_Witness ==
    /\ restarts > 0
    /\ resumed_from = 0
    /\ num_training_steps_per_epoch = 2
    /\ schedule_len = 4
    /\ run_trained = <<1>>
    /\ handed = <<2, 3>>

====
